---- MODULE Spec2Model ----
(***************************************************************************)
(* Model of the car-plate OCR demo job (src/open/demo/learn/main.py):      *)
(* the trainer _train_mlp as a state machine, and the label codec and the  *)
(* predictor (_build_vocab, _encode_labels, _predict_text) as operators    *)
(* applied to inputs drawn from bounded sets.                              *)
(*                                                                         *)
(* Numbers.  Floating-point losses are abstracted to the naturals          *)
(* 0..MaxLoss, plus Inf (float("inf")) and NaN (what the softmax/log       *)
(* pipeline yields once a weight has overflowed).  Comparisons on them go  *)
(* through FloatLt, which is false whenever an operand is NaN, as the      *)
(* Python `<` on floats is.  The four parameter tensors are abstracted to  *)
(* one integer each; a training step subtracts learning_rate * gradient,   *)
(* the gradient being data-dependent and therefore drawn from Grads.       *)
(* Characters are code points; a token is a sequence of code points, so    *)
(* that the five-character padding token and a one-character token are     *)
(* different values that compare as Python strings do.                     *)
(***************************************************************************)
EXTENDS Integers, Sequences, FiniteSets, TLC

VARIABLES
    pc,             \* position of the job in _train_mlp / the applied function
    cfg,            \* TrainConfig handed to _train_mlp
    n_train,        \* rows of x_train
    n_val,          \* rows of x_val
    params,         \* live parameters <<w1, b1, w2, b2>>; <<>> before initialisation
    best_val_loss,  \* best_val_loss
    best_snapshot,  \* best_snapshot; <<>> is None
    epoch,          \* loop variable of the epoch loop
    batch_idx,      \* loop variable of the batch loop
    perm,           \* this epoch's permutation of 0..n_train-1
    batches,        \* index slices used by the training steps of this epoch
    val_loss,       \* val_loss of the last evaluation
    slept,          \* seconds slept by the last Pace phase
    log,            \* calls received by the telemetry logger, in order
    trace,          \* phases entered so far, as <<phase, epoch>>
    epoch_losses,   \* val_loss of each completed epoch
    epoch_params,   \* live parameters at the end of each completed epoch
    result,         \* what _train_mlp returned or raised
    input,          \* arguments of the applied pure function
    output          \* its result

trainVars == <<pc, cfg, n_train, n_val, params, best_val_loss, best_snapshot,
               epoch, batch_idx, perm, batches, val_loss, slept,
               log, trace, epoch_losses, epoch_params, result>>
fnVars == <<input, output>>
vars == <<pc, cfg, n_train, n_val, params, best_val_loss, best_snapshot,
          epoch, batch_idx, perm, batches, val_loss, slept,
          log, trace, epoch_losses, epoch_params, result, input, output>>

----------------------------------------------------------------------------
(* Bounds of the model                                                     *)

MaxEpochs == 2
MaxTrain == 2
MaxBatch == 2
MaxLoss == 1

(* Width * height of a feature row; positive for every clamped config.     *)
FeatDim == 1

LearningRates == {1}

(* rows of x_val: none, or some *)
ValRows == {0, 1}

(* cfg.min_epoch_seconds, and the seconds an epoch took before pacing *)
MinEpochSeconds == {0, 1}
Elapsed == {0, 1}

(* the gradients <<dW1, db1, dW2, db2>> a training step can compute *)
Grads == {<<0, 0, 0, 0>>, <<1, 1, 1, 1>>}

----------------------------------------------------------------------------
(* Floats                                                                  *)

NaN == -1
Inf == MaxLoss + 1
FiniteLosses == 0..MaxLoss
Losses == FiniteLosses \cup {NaN}

FloatLt(a, b) == a # NaN /\ b # NaN /\ a < b

CeilDiv(a, b) == (a + b - 1) \div b

Min2(a, b) == IF a < b THEN a ELSE b

RECURSIVE Perms(_)
Perms(S) ==
    IF S = {} THEN {<<>>}
    ELSE UNION {{<<x>> \o p : p \in Perms(S \ {x})} : x \in S}

(* perm[start : start + size] on a 0-based list held as a 1-based sequence *)
Slice(s, start, size) ==
    SubSeq(s, Min2(start, Len(s)) + 1, Min2(start + size, Len(s)))

----------------------------------------------------------------------------
(* _eval_model: the loss it returns.  An empty tensor pair gives 0.0; any   *)
(* other loss is data- and parameter-dependent.                            *)

EvalLosses(n) == IF n * FeatDim = 0 THEN {0} ELSE Losses

----------------------------------------------------------------------------
(* _train_mlp                                                              *)

None == <<>>

TrainConfigs ==
    [epochs : 1..MaxEpochs,
     batch_size : 1..MaxBatch,
     learning_rate : LearningRates,
     min_epoch_seconds : MinEpochSeconds]

(* w1, w2 are seeded Gaussian draws, b1, b2 are zeros.                     *)
InitialParams == <<1, 0, 1, 0>>

(* variant: the empty check is missing *)
EmptyTrainSetUnchecked(n) == FALSE

EmptyTrainSet(n) == n * FeatDim = 0

(* variant: the batch count is rounded down *)
BatchesPerEpochFloor(n, c) == n \div c.batch_size

BatchesPerEpoch(n, c) == CeilDiv(n, c.batch_size)

SgdStep(p, lr, g) == [i \in 1..4 |-> p[i] - lr * g[i]]

(* variant: a tie also replaces the snapshot *)
ImprovesOrTies(val, best) == val # NaN /\ best # NaN /\ val <= best

Improves(val, best) == FloatLt(val, best)

(* of the metrics and metadata only val_loss, epoch and epochs are kept: the
   training-set evaluation of line 341 feeds nothing but this report *)
MetricsReport(e, vl, c) ==
    [kind |-> "metrics", step |-> e, val_loss |-> vl, epoch |-> e,
     epochs |-> c.epochs]

(* variant: the progress step counts from zero *)
ProgressReportFromZero(e, total) ==
    [kind |-> "progress", step |-> e - 1, total_steps |-> total,
     percent |-> [num |-> e - 1, den |-> total], message |-> "training"]

(* percent = epoch / float(total_steps), kept as the fraction num/den      *)
ProgressReport(e, total) ==
    [kind |-> "progress", step |-> e, total_steps |-> total,
     percent |-> [num |-> e, den |-> total], message |-> "training"]

ReturnedParams(snapshot, live) == IF snapshot # None THEN snapshot ELSE live

(* variant: the infinite best loss is reported as it is *)
ReportedLossRaw(best) == best

ReportedLoss(best) == IF best # Inf THEN best ELSE 0

Enter(phase, e) == trace' = Append(trace, <<phase, e>>)

InitTrain ==
    /\ pc = "Initializing"
    /\ cfg \in TrainConfigs
    /\ n_train \in 0..MaxTrain
    /\ n_val \in ValRows
    /\ params = <<>>
    /\ best_val_loss = Inf
    /\ best_snapshot = None
    /\ epoch = 0
    /\ batch_idx = 0
    /\ perm = <<>>
    /\ batches = <<>>
    /\ val_loss = 0
    /\ slept = 0
    /\ log = <<>>
    /\ trace = <<>>
    /\ epoch_losses = <<>>
    /\ epoch_params = <<>>
    /\ result = [status |-> "running"]
    /\ input = [fn |-> "_train_mlp"]
    /\ output = [done |-> FALSE]

(* lines 274-292: the empty check, then parameter initialisation *)
Initialize ==
    /\ pc = "Initializing"
    /\ IF EmptyTrainSet(n_train)
       THEN /\ pc' = "Failed"
            /\ result' = [status |-> "raised", error |-> "empty_train_set"]
            /\ UNCHANGED <<params, epoch, trace>>
       ELSE /\ params' = InitialParams
            /\ epoch' = 1
            /\ pc' = "Shuffle"
            /\ Enter("Shuffle", 1)
            /\ UNCHANGED result
    /\ UNCHANGED <<cfg, n_train, n_val, best_val_loss, best_snapshot, batch_idx,
                   perm, batches, val_loss, slept, log,
                   epoch_losses, epoch_params, fnVars>>

(* lines 295-297 *)
Shuffle ==
    /\ pc = "Shuffle"
    /\ perm' \in Perms(0..(n_train - 1))
    /\ batch_idx' = 0
    /\ batches' = <<>>
    /\ pc' = "Minibatch"
    /\ Enter("Minibatch", epoch)
    /\ UNCHANGED <<cfg, n_train, n_val, params, best_val_loss, best_snapshot,
                   epoch, val_loss, slept, log, epoch_losses,
                   epoch_params, result, fnVars>>

(* variant: the snapshot holds the live arrays, not copies of them *)
MinibatchAliased ==
    /\ pc = "Minibatch"
    /\ batch_idx < BatchesPerEpoch(n_train, cfg)
    /\ \E g \in Grads :
          params' = SgdStep(params, cfg.learning_rate, g)
    /\ best_snapshot' = IF best_snapshot = None THEN None ELSE params'
    /\ batches' = Append(batches, Slice(perm, batch_idx * cfg.batch_size, cfg.batch_size))
    /\ batch_idx' = batch_idx + 1
    /\ IF batch_idx + 1 < BatchesPerEpoch(n_train, cfg)
       THEN UNCHANGED <<pc, trace>>
       ELSE pc' = "Evaluate" /\ Enter("Evaluate", epoch)
    /\ UNCHANGED <<cfg, n_train, n_val, best_val_loss, epoch,
                   perm, val_loss, slept, log, epoch_losses,
                   epoch_params, result, fnVars>>

(* lines 299-339: one training step *)
Minibatch ==
    /\ pc = "Minibatch"
    /\ batch_idx < BatchesPerEpoch(n_train, cfg)
    /\ \E g \in Grads :
          params' = SgdStep(params, cfg.learning_rate, g)
    /\ batches' = Append(batches, Slice(perm, batch_idx * cfg.batch_size, cfg.batch_size))
    /\ batch_idx' = batch_idx + 1
    /\ IF batch_idx + 1 < BatchesPerEpoch(n_train, cfg)
       THEN UNCHANGED <<pc, trace>>
       ELSE pc' = "Evaluate" /\ Enter("Evaluate", epoch)
    /\ UNCHANGED <<cfg, n_train, n_val, best_val_loss, best_snapshot, epoch,
                   perm, val_loss, slept, log, epoch_losses,
                   epoch_params, result, fnVars>>

(* lines 341-342 *)
Evaluate ==
    /\ pc = "Evaluate"
    /\ val_loss' \in EvalLosses(n_val)
    /\ pc' = "Checkpoint"
    /\ Enter("Checkpoint", epoch)
    /\ UNCHANGED <<cfg, n_train, n_val, params, best_val_loss, best_snapshot,
                   epoch, batch_idx, perm, batches, slept, log, epoch_losses,
                   epoch_params, result, fnVars>>

(* lines 344-346 *)
Checkpoint ==
    /\ pc = "Checkpoint"
    /\ IF Improves(val_loss, best_val_loss)
       THEN /\ best_val_loss' = val_loss
            /\ best_snapshot' = params
       ELSE UNCHANGED <<best_val_loss, best_snapshot>>
    /\ epoch_losses' = Append(epoch_losses, val_loss)
    /\ epoch_params' = Append(epoch_params, params)
    /\ pc' = "Report"
    /\ Enter("Report", epoch)
    /\ UNCHANGED <<cfg, n_train, n_val, params, epoch, batch_idx, perm,
                   batches, val_loss, slept, log, result, fnVars>>

(* lines 348-363 *)
Report ==
    /\ pc = "Report"
    /\ log' = log \o <<MetricsReport(epoch, val_loss, cfg),
                       ProgressReport(epoch, cfg.epochs)>>
    /\ pc' = "Pace"
    /\ Enter("Pace", epoch)
    /\ UNCHANGED <<cfg, n_train, n_val, params, best_val_loss, best_snapshot,
                   epoch, batch_idx, perm, batches, val_loss,
                   slept, epoch_losses, epoch_params, result, fnVars>>

(* variant: the epoch loop runs one epoch too many *)
PaceOneEpochMore ==
    /\ pc = "Pace"
    /\ slept' = 0
    /\ IF epoch <= cfg.epochs
       THEN /\ epoch' = epoch + 1
            /\ pc' = "Shuffle"
            /\ Enter("Shuffle", epoch + 1)
       ELSE /\ pc' = "Finalizing"
            /\ Enter("Finalizing", epoch)
            /\ UNCHANGED epoch
    /\ UNCHANGED <<cfg, n_train, n_val, params, best_val_loss, best_snapshot,
                   batch_idx, perm, batches, val_loss, log,
                   epoch_losses, epoch_params, result, fnVars>>

(* lines 365-369, then the loop header of line 294 *)
Pace ==
    /\ pc = "Pace"
    /\ \E elapsed \in Elapsed :
          slept' = IF cfg.min_epoch_seconds > 0
                      /\ cfg.min_epoch_seconds - elapsed > 0
                   THEN cfg.min_epoch_seconds - elapsed
                   ELSE 0
    /\ IF epoch < cfg.epochs
       THEN /\ epoch' = epoch + 1
            /\ pc' = "Shuffle"
            /\ Enter("Shuffle", epoch + 1)
       ELSE /\ pc' = "Finalizing"
            /\ Enter("Finalizing", epoch)
            /\ UNCHANGED epoch
    /\ UNCHANGED <<cfg, n_train, n_val, params, best_val_loss, best_snapshot,
                   batch_idx, perm, batches, val_loss, log,
                   epoch_losses, epoch_params, result, fnVars>>

(* lines 371-390 *)
Finalize ==
    /\ pc = "Finalizing"
    /\ result' = [status |-> "returned",
                  model |-> ReturnedParams(best_snapshot, params),
                  val_loss |-> ReportedLoss(best_val_loss)]
    /\ pc' = "Done"
    /\ UNCHANGED <<cfg, n_train, n_val, params, best_val_loss, best_snapshot,
                   epoch, batch_idx, perm, batches, val_loss,
                   slept, log, trace, epoch_losses, epoch_params, fnVars>>

Next ==
    \/ Initialize
    \/ Shuffle
    \/ Minibatch
    \/ Evaluate
    \/ Checkpoint
    \/ Report
    \/ Pace
    \/ Finalize

Spec == InitTrain /\ [][Next]_vars

(* _train_mlp on training sets large enough for a short last batch and
   for several batches per epoch; the validation set is empty *)
MaxRows == 4

BatchConfigs ==
    [epochs : 1..MaxEpochs,
     batch_size : (1..MaxBatch) \cup {4},
     learning_rate : LearningRates,
     min_epoch_seconds : {0}]

InitBatches ==
    /\ pc = "Initializing"
    /\ cfg \in BatchConfigs
    /\ n_train \in 0..MaxRows
    /\ n_val = 0
    /\ params = <<>>
    /\ best_val_loss = Inf
    /\ best_snapshot = None
    /\ epoch = 0
    /\ batch_idx = 0
    /\ perm = <<>>
    /\ batches = <<>>
    /\ val_loss = 0
    /\ slept = 0
    /\ log = <<>>
    /\ trace = <<>>
    /\ epoch_losses = <<>>
    /\ epoch_params = <<>>
    /\ result = [status |-> "running"]
    /\ input = [fn |-> "_train_mlp"]
    /\ output = [done |-> FALSE]

BatchSpec == InitBatches /\ [][Next]_vars

----------------------------------------------------------------------------
(* Strings.  A string is a sequence of code points; a token of a vocabulary *)
(* is a string.                                                            *)

(* "<pad>" *)
PAD_TOKEN == <<60, 112, 97, 100, 62>>

(* '0' and 'A': one character below '<' and one above it *)
Alphabet == {48, 65}

MaxLabelLen == 2
MaxLabels == 2
MaxLen == 2

SeqsUpTo(S, n) == UNION {[1..k -> S] : k \in 0..n}

Range(s) == {s[i] : i \in DOMAIN s}

(* a < b on Python strings *)
RECURSIVE StrLt(_, _)
StrLt(a, b) ==
    IF b = <<>> THEN FALSE
    ELSE IF a = <<>> THEN TRUE
    ELSE IF a[1] # b[1] THEN a[1] < b[1]
    ELSE StrLt(Tail(a), Tail(b))

(* label[:n] *)
Truncate(label, n) == SubSeq(label, 1, Min2(Len(label), n))

(* "".join(tokens) *)
RECURSIVE Join(_)
Join(tokens) == IF tokens = <<>> THEN <<>> ELSE Head(tokens) \o Join(Tail(tokens))

(* the labels a file stem can be: the strings over Alphabet, and the text of
   the padding token itself *)
LabelPool == SeqsUpTo(Alphabet, MaxLabelLen) \cup {PAD_TOKEN}

(* the trainer is not running while a function of the codec is applied *)
TrainerIdle ==
    /\ cfg = [epochs |-> 1, batch_size |-> 1, learning_rate |-> 1,
              min_epoch_seconds |-> 0]
    /\ n_train = 0
    /\ n_val = 0
    /\ params = <<>>
    /\ best_val_loss = Inf
    /\ best_snapshot = None
    /\ epoch = 0
    /\ batch_idx = 0
    /\ perm = <<>>
    /\ batches = <<>>
    /\ val_loss = 0
    /\ slept = 0
    /\ log = <<>>
    /\ trace = <<>>
    /\ epoch_losses = <<>>
    /\ epoch_params = <<>>
    /\ result = [status |-> "idle"]

TrainerUnchanged ==
    UNCHANGED <<cfg, n_train, n_val, params, best_val_loss, best_snapshot,
                epoch, batch_idx, perm, batches, val_loss, slept, log, trace,
                epoch_losses, epoch_params, result>>

----------------------------------------------------------------------------
(* _build_vocab                                                            *)

(* {ch for label in labels for ch in label}, each character a token *)
Chars(labels) ==
    UNION {{<<labels[i][j]>> : j \in DOMAIN labels[i]} : i \in DOMAIN labels}

(* variant: the characters are put in descending order *)
RECURSIVE SortedDescending(_)
SortedDescending(S) ==
    IF S = {} THEN <<>>
    ELSE LET m == CHOOSE x \in S : \A y \in S : y = x \/ StrLt(y, x)
         IN <<m>> \o SortedDescending(S \ {m})

(* sorted(S) *)
RECURSIVE Sorted(_)
Sorted(S) ==
    IF S = {} THEN <<>>
    ELSE LET m == CHOOSE x \in S : \A y \in S : y = x \/ StrLt(x, y)
         IN <<m>> \o Sorted(S \ {m})

BuildVocab(labels) ==
    LET chars == Sorted(Chars(labels))
    IN IF PAD_TOKEN \notin Range(chars) THEN Append(chars, PAD_TOKEN) ELSE chars

InitVocab ==
    /\ pc = "Call"
    /\ input \in [fn : {"_build_vocab"}, labels : SeqsUpTo(LabelPool, MaxLabels)]
    /\ output = [done |-> FALSE]
    /\ TrainerIdle

BuildVocabCall ==
    /\ pc = "Call"
    /\ input.fn = "_build_vocab"
    /\ output' = [done |-> TRUE, vocab |-> BuildVocab(input.labels)]
    /\ pc' = "Returned"
    /\ UNCHANGED input
    /\ TrainerUnchanged

NextVocab == BuildVocabCall

VocabSpec == InitVocab /\ [][NextVocab]_vars

----------------------------------------------------------------------------
(* _encode_labels, and the decoding half of _predict_text                  *)

Max2(a, b) == IF a > b THEN a ELSE b

(* tok_to_idx of line 201: the last position of a token wins; -1 if absent *)
TokToIdx(vocab, t) ==
    IF t \in Range(vocab)
    THEN (CHOOSE i \in DOMAIN vocab :
             vocab[i] = t /\ \A j \in DOMAIN vocab : vocab[j] = t => j <= i) - 1
    ELSE -1

(* variant: the padding index is taken to be 0 *)
PadIdxZero(vocab) == 0

(* pad_idx = tok_to_idx[PAD_TOKEN] *)
PadIdx(vocab) == TokToIdx(vocab, PAD_TOKEN)

(* variant: an unknown character gets index 0 *)
LookupOrZero(vocab, ch, pad_idx) ==
    IF <<ch>> \in Range(vocab) THEN TokToIdx(vocab, <<ch>>) ELSE 0

(* tok_to_idx.get(ch, pad_idx) *)
Lookup(vocab, ch, pad_idx) ==
    IF <<ch>> \in Range(vocab) THEN TokToIdx(vocab, <<ch>>) ELSE pad_idx

(* one row of y: filled with pad_idx, then overwritten from label[:max_len] *)
EncodeLabel(label, vocab, max_len) ==
    LET cut == Truncate(label, max_len)
    IN [j \in 1..max_len |->
           IF j <= Len(cut) THEN Lookup(vocab, cut[j], PadIdx(vocab))
           ELSE PadIdx(vocab)]

EncodeLabels(labels, vocab, max_len) ==
    [i \in DOMAIN labels |-> EncodeLabel(labels[i], vocab, max_len)]

(* line 445: idx = max(0, min(vocab_size - 1, idx)) *)
ClampIdx(idx, vocab_size) == Max2(0, Min2(vocab_size - 1, idx))

(* line 446 for every position: vocab[idx] of the clamped index *)
PositionTokens(idxs, vocab, vocab_size) ==
    [pos \in DOMAIN idxs |-> vocab[ClampIdx(idxs[pos], vocab_size) + 1]]

(* variant: every padding token is dropped, wherever it stands *)
RECURSIVE StripEveryPad(_, _, _)
StripEveryPad(tokens, confs, pad_token) ==
    IF tokens = <<>> THEN [tokens |-> <<>>, confs |-> <<>>]
    ELSE LET rest == StripEveryPad(Tail(tokens), Tail(confs), pad_token)
         IN IF Head(tokens) = pad_token THEN rest
            ELSE [tokens |-> <<Head(tokens)>> \o rest.tokens,
                  confs |-> <<Head(confs)>> \o rest.confs]

(* variant: the tokens are popped, the confidences are not *)
RECURSIVE StripTokensOnly(_, _, _)
StripTokensOnly(tokens, confs, pad_token) ==
    IF tokens # <<>> /\ tokens[Len(tokens)] = pad_token
    THEN StripTokensOnly(SubSeq(tokens, 1, Len(tokens) - 1), confs, pad_token)
    ELSE [tokens |-> tokens, confs |-> confs]

(* lines 449-451: pop tokens and confs while the last token is the pad *)
RECURSIVE StripTrailingPad(_, _, _)
StripTrailingPad(tokens, confs, pad_token) ==
    IF tokens # <<>> /\ tokens[Len(tokens)] = pad_token
    THEN StripTrailingPad(SubSeq(tokens, 1, Len(tokens) - 1),
                          SubSeq(confs, 1, Len(confs) - 1), pad_token)
    ELSE [tokens |-> tokens, confs |-> confs]

(* decoding one encoded row as _predict_text decodes the argmax indices of a
   model whose head is as wide as its vocabulary *)
DecodeRow(row, vocab) ==
    Join(StripTrailingPad(PositionTokens(row, vocab, Len(vocab)),
                          [pos \in DOMAIN row |-> 1], PAD_TOKEN).tokens)

CharTokens == {<<c>> : c \in Alphabet}

(* the vocabularies: duplicate-free lists of character tokens and the
   padding token, the padding token at any place *)
Vocabs ==
    {v \in SeqsUpTo(CharTokens \cup {PAD_TOKEN}, Cardinality(Alphabet) + 1) :
        /\ PAD_TOKEN \in Range(v)
        /\ \A i, j \in DOMAIN v : v[i] = v[j] => i = j}

InitCodec ==
    /\ pc = "Call"
    /\ input \in [fn : {"_encode_labels"},
                  labels : SeqsUpTo(SeqsUpTo(Alphabet, MaxLabelLen), MaxLabels),
                  vocab : Vocabs,
                  max_len : 1..MaxLen]
    /\ output = [done |-> FALSE]
    /\ TrainerIdle

EncodeLabelsCall ==
    /\ pc = "Call"
    /\ input.fn = "_encode_labels"
    /\ output' = [done |-> FALSE,
                  y |-> EncodeLabels(input.labels, input.vocab, input.max_len)]
    /\ pc' = "Encoded"
    /\ UNCHANGED input
    /\ TrainerUnchanged

DecodeCall ==
    /\ pc = "Encoded"
    /\ output' = [done |-> TRUE,
                  y |-> output.y,
                  text |-> [i \in DOMAIN output.y |-> DecodeRow(output.y[i], input.vocab)]]
    /\ pc' = "Returned"
    /\ UNCHANGED input
    /\ TrainerUnchanged

NextCodec ==
    \/ EncodeLabelsCall
    \/ DecodeCall

CodecSpec == InitCodec /\ [][NextCodec]_vars

----------------------------------------------------------------------------
(* _predict_text                                                           *)
(*                                                                         *)
(* The forward pass is data: each position's softmax row is given by its   *)
(* argmax index and the probability there, a level in 1..MaxProb.  The     *)
(* argmax ranges over the head's own width vocab_size = w2.shape[1], which *)
(* need not be the length of the stored vocabulary.                        *)

MaxSeqLen == 3
MaxProb == 2

(* float(min(confs)) if confs else 0.0 *)
Confidence(confs) ==
    IF confs = <<>> THEN 0
    ELSE CHOOSE m \in Range(confs) : \A c \in Range(confs) : m <= c

PredictText(model, heads) ==
    IF model.vocab = <<>>
    THEN [status |-> "raised", error |-> "model_invalid_vocab"]
    ELSE IF \E pos \in DOMAIN heads :
                ClampIdx(heads[pos].idx, model.vocab_size) >= Len(model.vocab)
    THEN [status |-> "raised", error |-> "IndexError"]
    ELSE LET idxs == [pos \in DOMAIN heads |-> heads[pos].idx]
             tokens == PositionTokens(idxs, model.vocab, model.vocab_size)
             confs == [pos \in DOMAIN heads |-> heads[pos].p]
             kept == StripTrailingPad(tokens, confs, model.pad_token)
         IN [status |-> "returned",
             tokens |-> kept.tokens,
             confs |-> kept.confs,
             text |-> Join(kept.tokens),
             confidence |-> Confidence(kept.confs)]

(* the head widths a stored vocabulary can come with *)
HeadWidths(vocab) ==
    {w \in {Len(vocab) - 1, Len(vocab), Len(vocab) + 1} : w >= 1}

Models ==
    UNION {[vocab : {v}, vocab_size : HeadWidths(v), pad_token : {PAD_TOKEN}] :
              v \in Vocabs \cup {<<>>}}

HeadsOf(m) ==
    UNION {[1..k -> [idx : 0..(m.vocab_size - 1), p : 1..MaxProb]] : k \in 1..MaxSeqLen}

InitPredict ==
    /\ pc = "Call"
    /\ \E m \in Models : \E h \in HeadsOf(m) :
          input = [fn |-> "_predict_text", model |-> m, heads |-> h]
    /\ output = [done |-> FALSE]
    /\ TrainerIdle

PredictTextCall ==
    /\ pc = "Call"
    /\ input.fn = "_predict_text"
    /\ output' = PredictText(input.model, input.heads)
    /\ pc' = "Returned"
    /\ UNCHANGED input
    /\ TrainerUnchanged

NextPredict == PredictTextCall

PredictSpec == InitPredict /\ [][NextPredict]_vars

----------------------------------------------------------------------------
(* _save_model_npz and _load_model_npz                                     *)
(*                                                                         *)
(* A Python float is one of 0..MaxFloat; the floats a 32-bit tensor can    *)
(* hold are the even ones, and astype(np.float32) rounds down to them.     *)
(* The JSON document is the list of (key, value) pairs in sorted key order *)
(* that json.dumps(sort_keys=True) writes.                                 *)

MaxFloat == 3

AsFloat32(v) == v - (v % 2)

Float32s == {v \in 0..MaxFloat : AsFloat32(v) = v}

(* the keys of a model config, in the order sort_keys puts them *)
SortedKeys ==
    <<"hidden_size", "image_height", "image_width", "max_label_len",
      "pad_token", "pixel_mean", "pixel_std", "schema", "seed", "vocab">>

JsonDumps(d) ==
    LET InDoc(k) == k \in DOMAIN d
        ks == SelectSeq(SortedKeys, InDoc)
    IN [i \in DOMAIN ks |-> <<ks[i], d[ks[i]]>>]

JsonLoads(doc) ==
    [k \in {doc[i][1] : i \in DOMAIN doc} |->
        doc[CHOOSE i \in DOMAIN doc :
                doc[i][1] = k /\ \A j \in DOMAIN doc : doc[j][1] = k => j <= i][2]]

(* cfg.get(key, default) *)
DictGet(d, key, default) == IF key \in DOMAIN d THEN d[key] ELSE default

(* lines 378-387: the config _train_mlp gives a model *)
ModelConfig(vocab, seq_len) ==
    [schema |-> "demo.car_plate_ocr.model.v2",
     image_width |-> 96,
     image_height |-> 24,
     hidden_size |-> 128,
     max_label_len |-> seq_len,
     pad_token |-> PAD_TOKEN,
     vocab |-> vocab,
     seed |-> 17]

(* variant: the means are added to the model's own config, not to a copy *)
SaveConfigsInPlace(config, mean, std) ==
    LET c == ("pixel_mean" :> mean) @@ ("pixel_std" :> std) @@ config
    IN [memory |-> c, file |-> c]

(* lines 394-396: cfg = dict(model.config), then the two assignments; the
   config left in memory and the one written *)
SaveConfigs(config, mean, std) ==
    [memory |-> config,
     file |-> ("pixel_mean" :> mean) @@ ("pixel_std" :> std) @@ config]

(* the archive written by np.savez_compressed *)
SaveModelNpz(model, mean, std) ==
    [config_json |-> JsonDumps(SaveConfigs(model.config, mean, std).file),
     w1 |-> AsFloat32(model.w1),
     b1 |-> AsFloat32(model.b1),
     w2 |-> AsFloat32(model.w2),
     b2 |-> AsFloat32(model.b2)]

LoadModelNpz(data) ==
    LET c == JsonLoads(data.config_json)
    IN [model |-> [config |-> c,
                   w1 |-> AsFloat32(data.w1),
                   b1 |-> AsFloat32(data.b1),
                   w2 |-> AsFloat32(data.w2),
                   b2 |-> AsFloat32(data.b2)],
        mean |-> DictGet(c, "pixel_mean", 0),
        std |-> DictGet(c, "pixel_std", 1)]

(* the models _train_mlp returns: 32-bit tensors and its config *)
TrainedModels ==
    [config : {ModelConfig(v, n) : v \in Vocabs, n \in {4, 16}},
     w1 : Float32s, b1 : Float32s, w2 : Float32s, b2 : Float32s]

InitSerializer ==
    /\ pc = "Call"
    /\ input \in [fn : {"_save_model_npz"},
                  model : TrainedModels,
                  mean : 0..MaxFloat,
                  std : 1..MaxFloat]
    /\ output = [done |-> FALSE]
    /\ TrainerIdle

SaveModelNpzCall ==
    /\ pc = "Call"
    /\ input.fn = "_save_model_npz"
    /\ output' = [done |-> FALSE,
                  memory |-> [input.model EXCEPT
                                 !.config = SaveConfigs(input.model.config,
                                                        input.mean, input.std).memory],
                  file |-> SaveModelNpz(input.model, input.mean, input.std)]
    /\ pc' = "Saved"
    /\ UNCHANGED input
    /\ TrainerUnchanged

LoadModelNpzCall ==
    /\ pc = "Saved"
    /\ output' = [done |-> TRUE,
                  memory |-> output.memory,
                  file |-> output.file,
                  loaded |-> LoadModelNpz(output.file)]
    /\ pc' = "Loaded"
    /\ UNCHANGED input
    /\ TrainerUnchanged

NextSerializer ==
    \/ SaveModelNpzCall
    \/ LoadModelNpzCall

SerializerSpec == InitSerializer /\ [][NextSerializer]_vars

----------------------------------------------------------------------------
(* main, run_training and run_evaluation                                   *)
(*                                                                         *)
(* A job is the list of its steps in program order.  A step either         *)
(* completes or raises; neither job has a try or an except, so what a step *)
(* raises unwinds to main.  An error is "api" (AnimusAPIError, raised by   *)
(* the collaborator calls) or "other" (any other Exception).  File names   *)
(* are sequences of one-character strings.  While a job runs, `output` is  *)
(* the state of the job.                                                   *)

MaxPreview == 2

ErrorKinds == {"api", "other"}

(* the steps that call a collaborator over HTTP *)
ApiSteps ==
    {"get_run", "download_dataset", "upload_model", "list_artifacts",
     "download_model", "upload_input", "upload_prediction"}

Step(name) == <<name, 0>>

TrainingSteps ==
    <<Step("require_env"), Step("get_run"), Step("parse_config"),
      Step("download_dataset"), Step("extract_dataset"), Step("scan_splits"),
      Step("encode_labels"), Step("load_features"), Step("train_mlp"),
      Step("save_model"), Step("upload_model"), Step("close_logger")>>

(* run_evaluation up to the listing of the model artifacts *)
EvaluationHead == <<Step("require_env"), Step("list_artifacts")>>

(* lines 625-637: the artifact is always downloaded, and loaded only when it
   is a trained model *)
ModelSteps(use_trained_model) ==
    IF use_trained_model
    THEN <<Step("download_model"), Step("load_model")>>
    ELSE <<Step("warn_fallback"), Step("download_model")>>

DatasetSteps ==
    <<Step("download_dataset"), Step("extract_dataset"), Step("resolve_split"),
      Step("scan_images")>>

(* lines 655-698, once per image, then lines 700-702 *)
RECURSIVE PreviewSteps(_, _)
PreviewSteps(i, n) ==
    IF i > n THEN <<Step("close_logger")>>
    ELSE <<<<"predict", i>>, <<"upload_input", i>>, <<"upload_prediction", i>>>>
         \o PreviewSteps(i + 1, n)

(* v.lower() on the characters file names are made of here *)
Lower(ch) ==
    CASE ch = "M" -> "m"
      [] ch = "N" -> "n"
      [] ch = "P" -> "p"
      [] ch = "Z" -> "z"
      [] OTHER -> ch

LowerName(name) == [i \in DOMAIN name |-> Lower(name[i])]

EndsWith(name, suffix) ==
    /\ Len(name) >= Len(suffix)
    /\ SubSeq(name, Len(name) - Len(suffix) + 1, Len(name)) = suffix

(* variant: any name that ends in npz counts, dot or not *)
UseTrainedModelNoDot(filename) == EndsWith(LowerName(filename), <<"n", "p", "z">>)

(* lines 617-618 *)
UseTrainedModel(filename) == EndsWith(LowerName(filename), <<".", "n", "p", "z">>)

(* the "filename" of an artifact item: model.npz, M.NPZ, m.bin, npz, none *)
Filenames ==
    {<<"m", ".", "n", "p", "z">>, <<"M", ".", "N", "P", "Z">>,
     <<"m", ".", "b", "i", "n">>, <<"n", "p", "z">>, <<>>}

(* 1.0 on the scale of the probability levels *)
Certain == MaxProb

(* what _predict_text can return for an image: any text, any confidence *)
ModelAnswers == [text : SeqsUpTo(Alphabet, 1), confidence : 0..MaxProb]

(* variant: every job ends with status 1 when it raised *)
ExitStatusOneForAll(raised) == IF raised = "none" THEN 0 ELSE 1

(* lines 705-716: the status main returns for what the job did *)
ExitStatus(raised) ==
    IF raised = "none" THEN 0
    ELSE IF raised = "api" THEN 2
    ELSE 1

(* line 706, on the stripped, lower-cased ANIMUS_JOB_KIND *)
PicksEvaluation(kind) == kind = "evaluation"

(* lines 661-670 and 693: one preview *)
Preview(use_trained_model, model, label, answer) ==
    IF use_trained_model /\ model # None
    THEN [label |-> label, predicted |-> answer.text,
          confidence |-> answer.confidence,
          is_correct |-> (answer.text = label), by |-> "model"]
    ELSE [label |-> label, predicted |-> label, confidence |-> Certain,
          is_correct |-> (label = label), by |-> "pass_through"]

InitJob ==
    /\ pc = "Main"
    /\ input \in [fn : {"main"},
                  kind : {"training", "evaluation", "other"},
                  artifacts : SeqsUpTo([artifact_id : {"", "a1"},
                                        filename : Filenames], 1),
                  images : SeqsUpTo(SeqsUpTo(Alphabet, 1), MaxPreview)]
    /\ output = [done |-> FALSE]
    /\ TrainerIdle

(* lines 704-709: the job is chosen and entered *)
MainStart ==
    /\ pc = "Main"
    /\ output' = [done |-> FALSE,
                  job |-> IF PicksEvaluation(input.kind)
                          THEN "run_evaluation" ELSE "run_training",
                  todo |-> IF PicksEvaluation(input.kind)
                           THEN EvaluationHead ELSE TrainingSteps,
                  ran |-> <<>>,
                  use_trained_model |-> FALSE,
                  model |-> None,
                  previews |-> <<>>,
                  raised |-> "none",
                  caught |-> 0]
    /\ pc' = "Running"
    /\ UNCHANGED input
    /\ TrainerUnchanged

(* the step at the head of the list raises: the checks the jobs make
   themselves raise RuntimeError *)
MustRaise(step) ==
    \/ step[1] = "list_artifacts" /\ output.job = "run_evaluation"
          /\ (input.artifacts = <<>> \/ input.artifacts[1].artifact_id = "")
    \/ step[1] = "scan_images" /\ input.images = <<>>

(* the state a completed step leaves *)
AfterStep(step) ==
    LET rest == Tail(output.todo)
        done == [output EXCEPT !.todo = rest, !.ran = Append(@, step)]
    IN CASE step[1] = "list_artifacts" /\ output.job = "run_evaluation" ->
                LET use == UseTrainedModel(input.artifacts[1].filename)
                IN [done EXCEPT !.use_trained_model = use,
                                !.todo = ModelSteps(use) \o DatasetSteps]
         [] step[1] = "load_model" ->
                [done EXCEPT !.model = <<"TrainedModel">>]
         [] step[1] = "scan_images" ->
                [done EXCEPT !.todo = PreviewSteps(1, Len(input.images))]
         [] OTHER -> done

(* a step of the running job completes *)
StepCompletes ==
    /\ pc = "Running"
    /\ output.todo # <<>>
    /\ LET step == Head(output.todo)
       IN /\ ~MustRaise(step)
          /\ IF step[1] = "predict"
             THEN \E answer \in ModelAnswers :
                     output' = [AfterStep(step) EXCEPT
                                   !.previews = Append(@,
                                       Preview(output.use_trained_model, output.model,
                                               input.images[step[2]], answer))]
             ELSE output' = AfterStep(step)
    /\ UNCHANGED <<pc, input>>
    /\ TrainerUnchanged

(* a step raises; main's handlers of lines 711-716 catch it *)
StepRaises ==
    /\ pc = "Running"
    /\ output.todo # <<>>
    /\ LET step == Head(output.todo)
       IN \E kind \in ErrorKinds :
             /\ kind = "api" => (step[1] \in ApiSteps /\ ~MustRaise(step))
             /\ output' = ("exit_status" :> ExitStatus(kind))
                           @@ [output EXCEPT !.ran = Append(@, step),
                                             !.raised = kind,
                                             !.caught = @ + 1,
                                             !.done = TRUE]
    /\ pc' = "Exited"
    /\ UNCHANGED input
    /\ TrainerUnchanged

(* the job returns; line 710 *)
JobReturns ==
    /\ pc = "Running"
    /\ output.todo = <<>>
    /\ output' = ("exit_status" :> ExitStatus("none"))
                  @@ [output EXCEPT !.done = TRUE]
    /\ pc' = "Exited"
    /\ UNCHANGED input
    /\ TrainerUnchanged

NextJob ==
    \/ MainStart
    \/ StepCompletes
    \/ StepRaises
    \/ JobReturns

JobSpec == InitJob /\ [][NextJob]_vars

----------------------------------------------------------------------------
(* Run parameters: _as_int, _clamp_int, _parse_train_config                *)

(* A parameter value as json.loads delivers it, tagged with its Python type:
   v carries the integer, the sign of an integer beyond the 32-bit range
   ("bigint"), or a float counted in halves; s carries the characters of a
   string. *)
Param(t, v, s) == [t |-> t, v |-> v, s |-> s]

ParamNone == Param("none", 0, <<>>)

ParamStrings ==
    {<<"7">>, <<" ", "7", " ">>, <<"-", "1">>, <<"x">>, <<"7", ".", "0">>, <<>>}

ParamValues ==
    {ParamNone, Param("bool", 1, <<>>), Param("list", 0, <<>>)}
    \cup {Param("int", v, <<>>) : v \in {-1, 0, 7, 100, 60000}}
    \cup {Param("bigint", v, <<>>) : v \in {-1, 1}}
    \cup {Param("float", v, <<>>) : v \in {-3, 1, 15}}
    \cup {Param("float_inf", 1, <<>>), Param("float_nan", 0, <<>>)}
    \cup {Param("str", 0, s) : s \in ParamStrings}

(* the values tried for the keys other than the two epoch keys *)
FieldValues ==
    {Param("int", v, <<>>) : v \in {-1, 7, 100, 60000}}
    \cup {Param("bigint", 1, <<>>), Param("float", 15, <<>>),
          Param("float_inf", 1, <<>>), Param("str", 0, <<"x">>)}

FieldKeys ==
    {"train_batch_size", "train_hidden_size", "image_width", "image_height",
     "max_train_samples", "max_validation_samples", "seed"}

(* params.get(key) *)
Get(job_params, key) == IF key \in DOMAIN job_params THEN job_params[key] ELSE ParamNone

(* the result of an int conversion: an integer, an integer beyond the
   32-bit range (big is its sign), or the exception raised *)
IntOf(v) == [raised |-> "none", big |-> 0, v |-> v]

BigInt(sign) == [raised |-> "none", big |-> sign, v |-> 0]

Raised(error) == [raised |-> error, big |-> 0, v |-> 0]

(* int() of a float given in halves: truncation towards zero *)
Trunc(h) == IF h >= 0 THEN h \div 2 ELSE -((-h) \div 2)

DigitOf == ("0" :> 0) @@ ("1" :> 1) @@ ("7" :> 7)

RECURSIVE StripLeft(_)
StripLeft(s) == IF s # <<>> /\ Head(s) = " " THEN StripLeft(Tail(s)) ELSE s

RECURSIVE StripRight(_)
StripRight(s) ==
    IF s # <<>> /\ s[Len(s)] = " "
    THEN StripRight(SubSeq(s, 1, Len(s) - 1))
    ELSE s

Strip(s) == StripRight(StripLeft(s))

Unsigned(s) == IF s # <<>> /\ Head(s) \in {"+", "-"} THEN Tail(s) ELSE s

(* int(s) succeeds: an optional sign and at least one digit *)
IntLiteral(s) ==
    /\ Unsigned(s) # <<>>
    /\ \A i \in DOMAIN Unsigned(s) : Unsigned(s)[i] \in DOMAIN DigitOf

RECURSIVE DigitsValue(_)
DigitsValue(s) ==
    IF s = <<>>
    THEN 0
    ELSE 10 * DigitsValue(SubSeq(s, 1, Len(s) - 1)) + DigitOf[s[Len(s)]]

ParseInt(s) ==
    IF Head(s) = "-" THEN -DigitsValue(Unsigned(s)) ELSE DigitsValue(Unsigned(s))

(* _as_int: the float branch calls int(v) outside any try *)
AsInt(v, default) ==
    CASE v.t = "bool" -> IntOf(default)
      [] v.t = "int" -> IntOf(v.v)
      [] v.t = "bigint" -> BigInt(v.v)
      [] v.t = "float" -> IntOf(Trunc(v.v))
      [] v.t = "float_inf" -> Raised("OverflowError")
      [] v.t = "float_nan" -> Raised("ValueError")
      [] v.t = "str" ->
            IF IntLiteral(Strip(v.s)) THEN IntOf(ParseInt(Strip(v.s))) ELSE IntOf(default)
      [] OTHER -> IntOf(default)

(* _clamp_int: max(lo, min(hi, int(value))) *)
ClampInt(value, lo, hi) ==
    CASE value.big = 1 -> hi
      [] value.big = -1 -> lo
      [] OTHER -> Max2(lo, Min2(hi, value.v))

NonPositive(value) == value.big = -1 \/ (value.big = 0 /\ value.v <= 0)

(* _parse_train_config, its integer fields; the float keys are absent from
   the mappings tried, so the float fields keep their defaults *)
ParseTrainConfig(job_params) ==
    LET train_epochs == AsInt(Get(job_params, "train_epochs"), 0)
        epochs == IF train_epochs.raised = "none" /\ NonPositive(train_epochs)
                  THEN AsInt(Get(job_params, "train_steps"), 40)
                  ELSE train_epochs
        ints == <<epochs,
                  AsInt(Get(job_params, "train_batch_size"), 32),
                  AsInt(Get(job_params, "train_hidden_size"), 128),
                  AsInt(Get(job_params, "image_width"), 96),
                  AsInt(Get(job_params, "image_height"), 24),
                  AsInt(Get(job_params, "max_train_samples"), 200),
                  AsInt(Get(job_params, "max_validation_samples"), 64),
                  AsInt(Get(job_params, "seed"), 17)>>
        raising == {i \in DOMAIN ints : ints[i].raised # "none"}
        first == CHOOSE i \in raising : \A j \in raising : i <= j
    IN  IF raising # {}
        THEN [status |-> "raised", error |-> ints[first].raised]
        ELSE [status |-> "returned",
              config |->
                 [epochs |-> ClampInt(ints[1], 1, 5000),
                  batch_size |-> ClampInt(ints[2], 4, 512),
                  hidden_size |-> ClampInt(ints[3], 16, 2048),
                  image_width |-> ClampInt(ints[4], 16, 512),
                  image_height |-> ClampInt(ints[5], 8, 256),
                  max_train_samples |-> ClampInt(ints[6], 10, 50000),
                  max_validation_samples |-> ClampInt(ints[7], 10, 50000),
                  seed |-> ClampInt(ints[8], 0, 2147483647)]]

(* the mappings tried: each epoch key absent or holding any value, and one
   other key *)
EpochParams ==
    UNION {[keys -> ParamValues] : keys \in SUBSET {"train_epochs", "train_steps"}}

FieldParams == UNION {[{key} -> FieldValues] : key \in FieldKeys}

InitParse ==
    /\ pc = "Call"
    /\ \E e \in EpochParams, f \in FieldParams :
          input = [fn |-> "_parse_train_config", params |-> e @@ f]
    /\ output = [done |-> FALSE]
    /\ TrainerIdle

ParseTrainConfigCall ==
    /\ pc = "Call"
    /\ input.fn = "_parse_train_config"
    /\ output' = ParseTrainConfig(input.params) @@ [done |-> TRUE]
    /\ pc' = "Parsed"
    /\ UNCHANGED input
    /\ TrainerUnchanged

NextParse == ParseTrainConfigCall

ParseSpec == InitParse /\ [][NextParse]_vars

----------------------------------------------------------------------------
(* Split scanning in run_training: _iter_images and the validation split   *)

MaxFiles == 13

(* the sample caps tried, within the range _parse_train_config clamps to *)
SampleCaps == {10, 11, 12}

(* a directory entry in sorted order: its path and whether it is a file
   with an image extension *)
Entry(dir, i, image) == [path |-> <<dir, i>>, image |-> image]

(* the sorted listings of a directory of up to n entries, at most one of
   which is not an image *)
Listings(dir, n) ==
    UNION {{[i \in 1..k |-> Entry(dir, i, i # other)] : other \in 0..k} : k \in 0..n}

SplitDirs(dir, n) ==
    {[is_dir |-> FALSE, entries |-> <<>>]}
    \cup {[is_dir |-> TRUE, entries |-> l] : l \in Listings(dir, n)}

RECURSIVE IterImagesFrom(_, _, _, _)
IterImagesFrom(entries, i, out, limit) ==
    IF i > Len(entries) THEN out
    ELSE IF ~entries[i].image THEN IterImagesFrom(entries, i + 1, out, limit)
    ELSE IF Len(out) + 1 >= limit THEN Append(out, entries[i].path)
    ELSE IterImagesFrom(entries, i + 1, Append(out, entries[i].path), limit)

(* _iter_images: the first `limit` images of the sorted listing *)
IterImages(entries, limit) == IterImagesFrom(entries, 1, <<>>, limit)

InitSplit ==
    /\ pc = "Extracted"
    /\ input \in [fn : {"run_training"},
                  train : SplitDirs("train", MaxFiles),
                  validation : SplitDirs("validation", 2),
                  max_train_samples : SampleCaps,
                  max_validation_samples : SampleCaps]
    /\ output = [done |-> FALSE, raised |-> "none", train_images |-> <<>>,
                 val_images |-> <<>>, val_source |-> "validation"]
    /\ TrainerIdle

ScanTrainSplit ==
    /\ pc = "Extracted"
    /\ LET train_images == IterImages(input.train.entries, input.max_train_samples)
       IN  IF ~input.train.is_dir
           THEN /\ output' = [output EXCEPT !.done = TRUE,
                                            !.raised = "dataset_missing_train_split"]
                /\ pc' = "Raised"
           ELSE IF train_images = <<>>
           THEN /\ output' = [output EXCEPT !.done = TRUE,
                                            !.raised = "empty_train_split"]
                /\ pc' = "Raised"
           ELSE /\ output' = [output EXCEPT !.train_images = train_images]
                /\ pc' = "TrainScanned"
    /\ UNCHANGED input
    /\ TrainerUnchanged

ScanValidationSplit ==
    /\ pc = "TrainScanned"
    /\ LET val_dir == IF input.validation.is_dir THEN input.validation ELSE input.train
           scanned == IterImages(val_dir.entries, input.max_validation_samples)
           train_images == output.train_images
       IN  output' = [output EXCEPT
                        !.done = TRUE,
                        !.val_source =
                            IF ~input.validation.is_dir \/ scanned = <<>>
                            THEN "train" ELSE "validation",
                        !.val_images =
                            IF scanned = <<>>
                            THEN SubSeq(train_images, 1,
                                        Min2(Len(train_images),
                                             input.max_validation_samples))
                            ELSE scanned]
    /\ pc' = "Scanned"
    /\ UNCHANGED input
    /\ TrainerUnchanged

NextSplit ==
    \/ ScanTrainSplit
    \/ ScanValidationSplit

SplitSpec == InitSplit /\ [][NextSplit]_vars

----------------------------------------------------------------------------
(* Properties of the trainer                                               *)

Completed == DOMAIN epoch_losses

NumericLosses == {epoch_losses[i] : i \in Completed} \ {NaN}

(* the minimum of the validation losses seen so far; Inf when there is none *)
MinLossSoFar ==
    IF NumericLosses = {} THEN Inf
    ELSE CHOOSE m \in NumericLosses : \A l \in NumericLosses : m <= l

(* the earliest completed epoch whose validation loss is that minimum; 0 if none *)
EarliestBestEpoch ==
    IF NumericLosses = {} THEN 0
    ELSE CHOOSE i \in Completed :
            /\ epoch_losses[i] = MinLossSoFar
            /\ \A j \in Completed : epoch_losses[j] = MinLossSoFar => i <= j

BestTracksEarliestMinimum ==
    /\ best_val_loss = MinLossSoFar
    /\ best_snapshot = IF EarliestBestEpoch = 0 THEN None
                       ELSE epoch_params[EarliestBestEpoch]

(* C1, as stated: at every point of training the best validation loss is the
   minimum of the validation losses of the completed epochs and the snapshot
   holds the parameters of the earliest epoch attaining it (an equal loss
   never replaces it); and when training ends the returned model is that
   snapshot and the reported val_loss is that minimum, whatever the run. *)
C1_AsStated ==
    /\ BestTracksEarliestMinimum
    /\ pc = "Done" =>
          /\ result.val_loss = MinLossSoFar
          /\ result.model = best_snapshot

(* C1, amended: the same tracking invariant, the minimum being taken over the
   losses that are numbers; when training ends and some epoch recorded a
   snapshot, the returned model is that snapshot and the reported val_loss is
   that minimum. *)
C1_BestIsEarliestMinimum ==
    /\ BestTracksEarliestMinimum
    /\ (pc = "Done" /\ EarliestBestEpoch # 0) =>
          /\ result.val_loss = MinLossSoFar
          /\ result.model = epoch_params[EarliestBestEpoch]

(* two epochs tie on the minimum with different parameters, and the run
   returned the earlier epoch's parameters *)
C1_Witness ==
    /\ pc = "Done"
    /\ Len(epoch_losses) = 2
    /\ epoch_losses[1] = epoch_losses[2]
    /\ epoch_losses[1] # NaN
    /\ epoch_params[1] # epoch_params[2]
    /\ result.model = epoch_params[1]

(* C2: at the end of training, a checkpoint was never recorded exactly when
   the best loss is still infinite; then the returned parameters are the live
   ones after the last training step and the reported loss is 0.0; otherwise
   the returned parameters are the recorded snapshot and the reported loss is
   the recorded best loss. *)
C2_FallbackToLiveParams ==
    pc = "Done" =>
        /\ (best_snapshot = None) <=> (best_val_loss = Inf)
        /\ (best_snapshot = None) <=> (\A i \in Completed : epoch_losses[i] = NaN)
        /\ best_val_loss = Inf =>
              /\ result.model = params
              /\ result.model = epoch_params[Len(epoch_params)]
              /\ result.val_loss = 0
        /\ best_val_loss # Inf =>
              /\ result.model = best_snapshot
              /\ result.val_loss = best_val_loss

(* the run ended without a checkpoint, after training steps that moved the
   parameters *)
C2_Witness ==
    /\ pc = "Done"
    /\ best_val_loss = Inf
    /\ params # InitialParams
    /\ result.model = params
    /\ result.val_loss = 0

(* C3: with a training tensor of zero rows the call fails with
   empty_train_set before any epoch: the parameters are never initialised, no
   phase is entered, nothing is sent to the logger and nothing is returned. *)
C3_EmptyTrainSetFails ==
    n_train = 0 =>
        /\ pc \in {"Initializing", "Failed"}
        /\ params = <<>>
        /\ best_snapshot = None
        /\ log = <<>>
        /\ trace = <<>>
        /\ epoch_losses = <<>>
        /\ result.status # "returned"
        /\ pc = "Failed" => result = [status |-> "raised", error |-> "empty_train_set"]

C3_Witness ==
    /\ n_train = 0
    /\ pc = "Failed"
    /\ result.status = "raised"

(* epochs whose Report phase has run *)
Reported ==
    IF pc \in {"Initializing", "Failed"} THEN 0
    ELSE IF pc \in {"Pace", "Finalizing", "Done"} THEN epoch
    ELSE epoch - 1

(* C4: the logger receives one metrics report and one progress report per
   epoch and nothing else: after k epochs 2k calls, the i-th pair carrying
   step i, total_steps = E and percent = i/E; at the end k = E, so the last
   progress report is at 100%. *)
C4_OneReportPairPerEpoch ==
    /\ Len(log) = 2 * Reported
    /\ \A i \in 1..Reported :
          /\ log[2 * i - 1].kind = "metrics"
          /\ log[2 * i - 1].step = i
          /\ log[2 * i - 1].val_loss = epoch_losses[i]
          /\ log[2 * i].kind = "progress"
          /\ log[2 * i].step = i
          /\ log[2 * i].total_steps = cfg.epochs
          /\ log[2 * i].percent.num * cfg.epochs = i * log[2 * i].percent.den
    /\ pc = "Done" =>
          /\ Reported = cfg.epochs
          /\ log[Len(log)].percent.num = log[Len(log)].percent.den

(* a finished run of two epochs with several batches per epoch *)
C4_Witness ==
    /\ pc = "Done"
    /\ cfg.epochs = 2
    /\ BatchesPerEpoch(n_train, cfg) > 1
    /\ Len(log) = 4
    /\ log[4].step = 2

PhaseOrder == <<"Shuffle", "Minibatch", "Evaluate", "Checkpoint", "Report", "Pace">>

(* the phases of a run of E epochs, in order *)
ExpectedTrace(E) ==
    [i \in 1..(6 * E + 1) |->
        IF i = 6 * E + 1 THEN <<"Finalizing", E>>
        ELSE <<PhaseOrder[((i - 1) % 6) + 1], ((i - 1) \div 6) + 1>>]

(* C5: on a non-empty training set the phases entered so far are a prefix of
   Shuffle, Minibatch, Evaluate, Checkpoint, Report, Pace repeated for epochs
   1..E and followed by Finalizing; the trainer is in the last phase entered;
   the Minibatch phase is left after exactly ceil(n/B) steps; the run is
   never stuck before the end, and at the end all E epochs have run and a
   model and a best validation loss are returned. *)
C5_PhaseOrder ==
    n_train > 0 =>
        /\ Len(trace) <= 6 * cfg.epochs + 1
        /\ trace = SubSeq(ExpectedTrace(cfg.epochs), 1, Len(trace))
        /\ pc \notin {"Initializing", "Done"} =>
              /\ trace # <<>>
              /\ trace[Len(trace)] = <<pc, epoch>>
        /\ pc = "Initializing" => trace = <<>>
        /\ pc \in {"Evaluate", "Checkpoint", "Report", "Pace"} =>
              Len(batches) = BatchesPerEpoch(n_train, cfg)
        /\ pc = "Minibatch" => Len(batches) = batch_idx
                               /\ batch_idx < BatchesPerEpoch(n_train, cfg)
        /\ pc # "Done" => ENABLED Next
        /\ pc # "Failed"
        /\ pc = "Done" =>
              /\ trace = ExpectedTrace(cfg.epochs)
              /\ Len(epoch_losses) = cfg.epochs
              /\ result.status = "returned"
              /\ DOMAIN result = {"status", "model", "val_loss"}

C5_Witness ==
    /\ pc = "Done"
    /\ cfg.epochs = 2
    /\ Len(trace) = 13
    /\ trace[7] = <<"Shuffle", 2>>
    /\ result.status = "returned"

----------------------------------------------------------------------------
(* Properties of the label codec                                           *)

Count(v, t) == Cardinality({i \in DOMAIN v : v[i] = t})

Ascending(v) == \A i \in 1..(Len(v) - 1) : StrLt(v[i], v[i + 1])

LabelChars == UNION {Range(input.labels[i]) : i \in DOMAIN input.labels}

EachCharOnce ==
    /\ \A c \in LabelChars : Count(output.vocab, <<c>>) = 1
    /\ \A i \in DOMAIN output.vocab :
          output.vocab[i] = PAD_TOKEN
          \/ \E c \in LabelChars : output.vocab[i] = <<c>>

(* C6, as stated: the vocabulary holds each distinct character of the labels
   exactly once, is sorted, and holds the padding token exactly once. *)
C6_AsStated ==
    output.done =>
        /\ EachCharOnce
        /\ Ascending(output.vocab)
        /\ Count(output.vocab, PAD_TOKEN) = 1

(* C6, amended: the vocabulary holds each distinct character of the labels
   exactly once, in ascending order, followed by the padding token, which
   occurs exactly once, as the last entry, also when a label spells it. *)
C6_SortedCharsThenPad ==
    output.done =>
        /\ EachCharOnce
        /\ Count(output.vocab, PAD_TOKEN) = 1
        /\ output.vocab[Len(output.vocab)] = PAD_TOKEN
        /\ Ascending(SubSeq(output.vocab, 1, Len(output.vocab) - 1))
        /\ Len(output.vocab) = Cardinality(LabelChars) + 1

(* a label spells the padding token, another has a character that sorts
   after it *)
C6_Witness ==
    /\ output.done
    /\ PAD_TOKEN \in Range(input.labels)
    /\ 65 \in LabelChars
    /\ Len(output.vocab) = 7
    /\ output.vocab[1] = <<60>>
    /\ output.vocab[3] = <<65>>

Known(label) == \A j \in DOMAIN label : <<label[j]>> \in Range(input.vocab)

(* C7: a label no longer than max_len, made of characters of the vocabulary,
   is reproduced exactly by decoding its encoding; the empty label too. *)
C7_RoundTrip ==
    output.done =>
        \A i \in DOMAIN input.labels :
            (Len(input.labels[i]) <= input.max_len /\ Known(input.labels[i]))
                => output.text[i] = input.labels[i]

(* a full-length label, a shorter one and the padding token not last in the
   vocabulary *)
C7_Witness ==
    /\ output.done
    /\ input.max_len = 2
    /\ input.vocab = <<PAD_TOKEN, <<65>>, <<48>>>>
    /\ input.labels = <<<<65, 48>>, <<48>>>>
    /\ output.text = input.labels

(* C8: one row of max_len entries per label; below min(len(label), max_len)
   entry j is the index of label[j] in the vocabulary, or the padding index
   for an unknown character; from len(label) on every entry is the padding
   index; characters from max_len on are dropped; every entry indexes the
   vocabulary. *)
C8_EncodedRows ==
    pc \in {"Encoded", "Returned"} =>
        /\ DOMAIN output.y = DOMAIN input.labels
        /\ \A i \in DOMAIN input.labels :
              LET label == input.labels[i]
                  row == output.y[i]
              IN /\ DOMAIN row = 1..input.max_len
                 /\ \A j \in 1..input.max_len :
                       /\ row[j] \in 0..(Len(input.vocab) - 1)
                       /\ IF j <= Len(label) /\ <<label[j]>> \in Range(input.vocab)
                          THEN input.vocab[row[j] + 1] = <<label[j]>>
                          ELSE input.vocab[row[j] + 1] = PAD_TOKEN

(* a label longer than max_len with an unknown first character, next to a
   shorter label *)
C8_Witness ==
    /\ pc = "Encoded"
    /\ input.max_len = 1
    /\ input.vocab = <<<<48>>, PAD_TOKEN>>
    /\ input.labels = <<<<65, 48>>, <<>>>>
    /\ output.y = <<<<1>>, <<1>>>>

----------------------------------------------------------------------------
(* Properties of the predictor                                             *)

Predicted == pc = "Returned" /\ output.status = "returned"

(* the token and the probability of each position, before stripping *)
TokenAt(pos) == input.model.vocab[input.heads[pos].idx + 1]

ProbAt(pos) == input.heads[pos].p

Positions == DOMAIN input.heads

(* C9: the kept tokens are the per-position tokens without their maximal
   trailing run of padding tokens: a prefix in unchanged order, not ending in
   the padding token, everything after it padding; a padding token followed
   by a non-padding token is kept; the text is the kept tokens joined. *)
C9_StripsTrailingPadOnly ==
    Predicted =>
        LET k == Len(output.tokens)
        IN /\ k <= Len(input.heads)
           /\ \A pos \in 1..k : output.tokens[pos] = TokenAt(pos)
           /\ k > 0 => output.tokens[k] # PAD_TOKEN
           /\ \A pos \in Positions : pos > k => TokenAt(pos) = PAD_TOKEN
           /\ \A pos, later \in Positions :
                 (pos < later /\ TokenAt(pos) = PAD_TOKEN /\ TokenAt(later) # PAD_TOKEN)
                     => (pos <= k /\ output.tokens[pos] = PAD_TOKEN)
           /\ output.text = Join(output.tokens)

(* padding at an interior position is kept while the trailing one goes *)
C9_Witness ==
    /\ Predicted
    /\ Len(input.heads) = 3
    /\ TokenAt(1) = PAD_TOKEN
    /\ TokenAt(2) = <<65>>
    /\ TokenAt(3) = PAD_TOKEN
    /\ output.tokens = <<PAD_TOKEN, <<65>>>>
    /\ output.text = PAD_TOKEN \o <<65>>

(* C10: tokens and confidences have the same length; the confidence is the
   least argmax probability among the kept positions, whatever the stripped
   positions had, and 0.0 when nothing is kept (the text is empty). *)
C10_ConfidenceIsMinOfKept ==
    Predicted =>
        LET k == Len(output.tokens)
        IN /\ Len(output.confs) = k
           /\ \A pos \in 1..k : output.confs[pos] = ProbAt(pos)
           /\ k > 0 =>
                 /\ \E pos \in 1..k : output.confidence = ProbAt(pos)
                 /\ \A pos \in 1..k : output.confidence <= ProbAt(pos)
           /\ k = 0 => output.confidence = 0
           /\ output.text = <<>> => output.confidence = 0

(* the stripped position has a lower probability than every kept one *)
C10_Witness ==
    /\ Predicted
    /\ Len(input.heads) = 3
    /\ Len(output.tokens) = 2
    /\ ProbAt(1) = 2
    /\ ProbAt(2) = 2
    /\ ProbAt(3) = 1
    /\ output.confidence = 2

(* C15: for a model with a non-empty stored vocabulary, the index looked up
   at each position lies within 0 .. len(vocab)-1 and _predict_text never
   fails with an out-of-range lookup, whatever the width of the head. *)
C15_LookupWithinVocab ==
    (pc = "Returned" /\ input.model.vocab # <<>>) =>
        /\ \A pos \in Positions :
              ClampIdx(input.heads[pos].idx, input.model.vocab_size)
                  \in 0..(Len(input.model.vocab) - 1)
        /\ output.status = "returned"

----------------------------------------------------------------------------
(* Properties of the serializer                                            *)

ConfigFields ==
    {"vocab", "pad_token", "image_width", "image_height", "hidden_size",
     "max_label_len"}

(* C11: what _load_model_npz reads from the file _save_model_npz wrote has
   the saved tensors w1, b1, w2, b2, the mean and std passed to save, and a
   config with the original's vocabulary (same order), pad token, image
   dimensions, hidden size and max label length; and the config of the model
   in memory is what it was before saving. *)
C11_SaveLoadRoundTrip ==
    /\ pc \in {"Saved", "Loaded"} => output.memory = input.model
    /\ pc = "Loaded" =>
          /\ output.loaded.model.w1 = input.model.w1
          /\ output.loaded.model.b1 = input.model.b1
          /\ output.loaded.model.w2 = input.model.w2
          /\ output.loaded.model.b2 = input.model.b2
          /\ output.loaded.mean = input.mean
          /\ output.loaded.std = input.std
          /\ \A k \in ConfigFields :
                output.loaded.model.config[k] = input.model.config[k]

(* a model with different tensors and a three-token vocabulary whose padding
   token is not last, saved with a mean and a std no 32-bit float holds *)
C11_Witness ==
    /\ pc = "Loaded"
    /\ input.model.config.vocab = <<<<65>>, PAD_TOKEN, <<48>>>>
    /\ input.model.w1 = 2
    /\ input.model.b1 = 0
    /\ input.mean = 1
    /\ input.std = 3
    /\ output.loaded.mean = 1
    /\ output.loaded.model.config.vocab = input.model.config.vocab

----------------------------------------------------------------------------
(* Properties of the jobs                                                  *)

Exited == pc = "Exited"

NoStepTwice ==
    \A i, j \in DOMAIN output.ran : output.ran[i] = output.ran[j] => i = j

(* C12: main returns 0 exactly when the selected job ran all its steps
   without raising, 2 exactly when it raised an API error, 1 exactly when it
   raised anything else; the job is run_evaluation exactly for the kind
   "evaluation"; the error is caught once, by main, and inside the job no
   step runs again or runs after the one that raised. *)
C12_ExitStatus ==
    /\ pc = "Running" => (output.raised = "none" /\ output.caught = 0 /\ NoStepTwice)
    /\ Exited =>
          /\ (output.job = "run_evaluation") <=> (input.kind = "evaluation")
          /\ output.job \in {"run_evaluation", "run_training"}
          /\ output.exit_status \in {0, 1, 2}
          /\ (output.exit_status = 0) <=> (output.raised = "none" /\ output.todo = <<>>)
          /\ (output.exit_status = 2) <=> (output.raised = "api")
          /\ (output.exit_status = 1) <=> (output.raised = "other")
          /\ output.caught = (IF output.raised = "none" THEN 0 ELSE 1)
          /\ NoStepTwice
          /\ output.raised # "none" =>
                output.ran[Len(output.ran)] = Head(output.todo)

(* an evaluation whose last upload failed with an API error *)
C12_Witness ==
    /\ Exited
    /\ output.job = "run_evaluation"
    /\ output.raised = "api"
    /\ output.exit_status = 2
    /\ Len(output.previews) = 2
    /\ output.ran[Len(output.ran)] = <<"upload_prediction", 2>>

(* the file names that end in ".npz" once lower-cased *)
NpzNames == {<<"m", ".", "n", "p", "z">>, <<"M", ".", "N", "P", "Z">>}

Listed ==
    /\ pc \in {"Running", "Exited"}
    /\ output.job = "run_evaluation"
    /\ Step("list_artifacts") \in Range(output.ran)
    /\ ~(output.raised # "none" /\ Head(output.todo) = Step("list_artifacts"))

(* C13: in run_evaluation, once the artifact is listed: if its file name
   does not end in .npz the job goes on with the pass-through predictor (the
   warning and the download follow, no model is loaded, every preview has the
   label as prediction, confidence 1.0 and is_correct true); if it does, the
   model is loaded before the first preview and every preview is the model's
   answer. *)
C13_FallbackPredictor ==
    Listed =>
        IF input.artifacts[1].filename \notin NpzNames
        THEN /\ output.model = None
             /\ Step("load_model") \notin Range(output.ran)
             /\ Len(output.ran) >= 3 => output.ran[3] = Step("warn_fallback")
             /\ \A i \in DOMAIN output.previews :
                   /\ output.previews[i].by = "pass_through"
                   /\ output.previews[i].label = input.images[i]
                   /\ output.previews[i].predicted = input.images[i]
                   /\ output.previews[i].confidence = Certain
                   /\ output.previews[i].is_correct
        ELSE /\ output.previews # <<>> =>
                   (output.model # None /\ Step("load_model") \in Range(output.ran))
             /\ \A i \in DOMAIN output.previews :
                   /\ output.previews[i].by = "model"
                   /\ output.previews[i].label = input.images[i]
                   /\ output.previews[i].is_correct
                          <=> (output.previews[i].predicted = input.images[i])

(* an evaluation on an artifact named m.bin that finished with two
   pass-through previews *)
C13_Witness ==
    /\ Exited
    /\ output.job = "run_evaluation"
    /\ Len(input.artifacts) = 1
    /\ input.artifacts[1].filename = <<"m", ".", "b", "i", "n">>
    /\ output.exit_status = 0
    /\ Len(output.previews) = 2
    /\ output.previews[2].by = "pass_through"
    /\ output.previews[2].predicted = input.images[2]

----------------------------------------------------------------------------
(* Properties of the run parameters                                        *)

Parsed == pc = "Parsed"

(* the key parses to a positive integer *)
PositiveInt(v) ==
    /\ AsInt(v, 0).raised = "none"
    /\ ~NonPositive(AsInt(v, 0))

(* C14: for every parameter mapping _parse_train_config returns a config
   whose integer fields lie within their bounds, and whose epoch count comes
   from train_epochs when that parses to a positive integer, otherwise from
   train_steps, otherwise from the default 40. *)
C14_ClampedConfig ==
    Parsed =>
        /\ output.status = "returned"
        /\ output.config.epochs \in 1..5000
        /\ output.config.batch_size \in 4..512
        /\ output.config.hidden_size \in 16..2048
        /\ output.config.image_width \in 16..512
        /\ output.config.image_height \in 8..256
        /\ output.config.max_train_samples \in 10..50000
        /\ output.config.max_validation_samples \in 10..50000
        /\ output.config.seed >= 0
        /\ output.config.seed <= 2147483647
        /\ LET train_epochs == Get(input.params, "train_epochs")
               train_steps == Get(input.params, "train_steps")
           IN  output.config.epochs =
                  IF PositiveInt(train_epochs)
                  THEN ClampInt(AsInt(train_epochs, 0), 1, 5000)
                  ELSE ClampInt(AsInt(train_steps, 40), 1, 5000)

----------------------------------------------------------------------------
(* Properties of the split scanning                                        *)

IsPrefix(s, t) == Len(s) <= Len(t) /\ s = SubSeq(t, 1, Len(s))

(* the validation split is absent: no directory, or one without images *)
ValidationAbsent ==
    \/ ~input.validation.is_dir
    \/ \A i \in DOMAIN input.validation.entries : ~input.validation.entries[i].image

(* C16: when the validation split is absent, the validation samples are a
   prefix of the training samples, whatever the two caps and the number of
   images in the train directory. *)
C16_ValidationIsTrainPrefix ==
    (pc = "Scanned" /\ ValidationAbsent) =>
        IsPrefix(output.val_images, output.train_images)

----------------------------------------------------------------------------
(* Properties of the batches and of the snapshot                           *)

(* the least k with k * b >= n *)
Ceiling(n, b) == CHOOSE k \in 0..n : k * b >= n /\ \A j \in 0..(k - 1) : j * b < n

EpochBatched == pc \in {"Evaluate", "Checkpoint", "Report", "Pace", "Finalizing", "Done"}

(* the batches in which the training index x occurs, with its position *)
Occurrences(x) ==
    {<<i, j>> \in (DOMAIN batches) \X (1..n_train) :
        j \in DOMAIN batches[i] /\ batches[i][j] = x}

(* C17: in every epoch the batches are consecutive slices of the epoch's
   permutation of 0..n-1: ceil(n/B) training steps run, every batch is
   non-empty, every batch but the last has B samples, and every training
   index is in exactly one batch. *)
C17_BatchesPartitionPerm ==
    /\ pc = "Minibatch" => (Len(batches) = batch_idx
                             /\ batch_idx < Ceiling(n_train, cfg.batch_size))
    /\ pc \in {"Minibatch"} \cup (IF EpochBatched THEN {pc} ELSE {}) =>
          /\ Range(perm) = 0..(n_train - 1)
          /\ Len(perm) = n_train
          /\ \A i \in DOMAIN batches :
                /\ batches[i] # <<>>
                /\ i < Ceiling(n_train, cfg.batch_size) =>
                      Len(batches[i]) = cfg.batch_size
                /\ \A j \in DOMAIN batches[i] :
                      batches[i][j] = perm[(i - 1) * cfg.batch_size + j]
    /\ EpochBatched =>
          /\ Len(batches) = Ceiling(n_train, cfg.batch_size)
          /\ batch_idx = Len(batches)
          /\ \A x \in 0..(n_train - 1) : Cardinality(Occurrences(x)) = 1

(* the second epoch of three samples in batches of two has run: two
   batches, the last one of a single sample *)
C17_Witness ==
    /\ pc = "Pace"
    /\ epoch = 2
    /\ n_train = 3
    /\ cfg.batch_size = 2
    /\ Len(batches) = 2
    /\ Len(batches[2]) = 1
    /\ perm = <<2, 0, 1>>

(* C18: the snapshot is a value of its own: a training step leaves it
   unchanged, and it changes only at a checkpoint whose validation loss is
   strictly lower than the recorded best, to the parameters of that moment. *)
C18_SnapshotChangesOnlyOnImprovement ==
    [][/\ pc = "Minibatch" => best_snapshot' = best_snapshot
       /\ best_snapshot' # best_snapshot =>
             /\ pc = "Checkpoint"
             /\ FloatLt(val_loss, best_val_loss)
             /\ best_snapshot' = params
             /\ best_val_loss' = val_loss]_vars

(* the returned model is the snapshot of the first epoch and differs from
   the live parameters, which later training steps have moved on *)
C18_Witness ==
    /\ pc = "Done"
    /\ best_snapshot # None
    /\ result.model = best_snapshot
    /\ result.model = epoch_params[1]
    /\ result.model # params

====
